---- MODULE Spec2Model ----
(***************************************************************************)
(* Model of the lecture-research agent backend (backend/main.py,           *)
(* backend/graph.py, backend/state.py, backend/nodes/*.py).                *)
(*                                                                         *)
(* A session is an entry of execution_states.  A websocket connection      *)
(* drives the compiled LangGraph graph of the session's thread: it streams *)
(* the graph until the scheduler halts before an interrupt node, notifies  *)
(* the client (hitl_required), polls the session's status until            *)
(* submit_feedback changes it or 600 polls have passed, patches the        *)
(* checkpoint with update_state and streams again.                         *)
(*                                                                         *)
(* The driver is a coroutine: one action is one stretch of code between    *)
(* two awaits.  submit_feedback contains no await and is one action.       *)
(***************************************************************************)
EXTENDS Integers, Sequences, FiniteSets, TLC

(***************************************************************************)
(* Bounds of the model and constants of the program                        *)
(***************************************************************************)

\* Largest number of submit_feedback calls made to one session.
MaxFeedback == 3

\* Largest number of submit_feedback calls made to the second session of
\* the two-session specification.
MaxFeedbackSecond == 1

\* The polling loops give up when their counter reaches this value.
TimeoutLimit == 600

\* The length of one sleep of a polling loop, in tenths of a second.
SleepTenths == 5

\* The slices the nodes and the driver take: queries searched, results
\* turned into fallback claims, claims prioritized, facts selected for
\* verification, facts put in the preview.
QueryLimit == 5
FallbackLimit == 8
PrioritizedLimit == 12
FactsLimit == 6
PreviewLimit == 6

\* Bounds of the lists specification: queries, results of one query and
\* claims the collaborators return.
MaxQueries == 2
MaxResults == 4
MaxClaims == 2

\* The number of claims in a long answer of the collaborator.
MaxLongClaims == 13

\* Session ids and websocket connections of the model: those of the
\* one-session specification, and all of them.
SessionIds == {"s1"}
ConnIds == {"c1"}
AllSessionIds == {"s1", "s2"}
AllConnIds == {"c1", "c2"}

NoSession == "no_session"
None == "None"
END == "__end__"

Nodes == {"input", "plan", "search", "extract", "prioritize",
          "synthesize", "refine", "brief", "format"}

\* graph.py: workflow.compile(..., interrupt_before=[...])
InterruptBefore == {"search", "synthesize", "refine"}

\* The entry point of the graph.
EntryPoint == "input"

\* checkpoint_type values submit_feedback distinguishes, and one it does not.
KnownCheckpoints == {"research_plan", "plan_review", "plan_approval",
                     "fact_verification"}
CheckpointTypes == KnownCheckpoints \cup {"other"}

\* decision values a client sends.
Decisions == {"approve", "revise", "rework"}

\* What the text-generation collaborator returns to the refine node.
RefineOutputs == {"plan_json", "not_json", "json_missing_keys"}

(***************************************************************************)
(* The state record (state.py, ResearchState), reduced to the fields that  *)
(* steer control: the content of plans, claims and briefs is not modelled, *)
(* only whether each artifact exists and which revision it is.             *)
(***************************************************************************)

NoPlan == [present |-> FALSE, revision_count |-> 0]

InitialState ==
    [ research_plan                |-> NoPlan,
      human_feedback_research_plan |-> None,
      plan_approved                |-> FALSE,
      draft_plan                   |-> None,
      human_feedback_plan          |-> None,
      human_feedback_approval      |-> None,
      refined_plan                 |-> None,
      human_feedback_facts         |-> None,
      final_brief                  |-> FALSE,
      formatted_brief              |-> FALSE,
      current_node                 |-> "input",
      requires_human_input         |-> FALSE,
      checkpoint_id                |-> None ]

\* The four feedback slots of a state record.
FeedbackSlots == {"human_feedback_research_plan", "human_feedback_plan",
                  "human_feedback_approval", "human_feedback_facts"}

\* submit_feedback: the slot each checkpoint_type is stored in.
SlotOf(checkpoint_type) ==
    CASE checkpoint_type = "research_plan"     -> "human_feedback_research_plan"
      [] checkpoint_type = "plan_review"       -> "human_feedback_plan"
      [] checkpoint_type = "plan_approval"     -> "human_feedback_approval"
      [] checkpoint_type = "fact_verification" -> "human_feedback_facts"
      [] OTHER                                 -> None

(***************************************************************************)
(* Node handlers.  Each returns [ok, state]: ok = FALSE when the handler   *)
(* raises, and then the state it returns is not used.                      *)
(***************************************************************************)

Returned(st) == [ok |-> TRUE, state |-> st]
Raised(st) == [ok |-> FALSE, state |-> st]

input_node(st) == Returned([st EXCEPT !.current_node = "input"])

\* revision_count is 0 for the first plan and the previous count plus one
\* for every later one; plan_approved is reset.
PlanRevisionCount(st) ==
    IF st.research_plan.present THEN st.research_plan.revision_count + 1 ELSE 0

research_plan_node(st) ==
    Returned([st EXCEPT
        !.research_plan = [present |-> TRUE,
                           revision_count |-> PlanRevisionCount(st)],
        !.current_node = "plan",
        !.plan_approved = FALSE])

search_node(st) == Returned([st EXCEPT !.current_node = "search"])

extract_node(st) == Returned([st EXCEPT !.current_node = "extract"])

author_prioritization_node(st) ==
    Returned([st EXCEPT !.current_node = "author_prioritization"])

synthesis_node(st) ==
    Returned([st EXCEPT
        !.draft_plan = "draft",
        !.requires_human_input = TRUE,
        !.checkpoint_id = "plan_review",
        !.current_node = "synthesis"])

\* The slot the refine node reads its feedback from.
RefineFeedback(st) == st.human_feedback_plan

\* refinement_node, the rework and emphasize_topic branches: the plan is
\* regenerated by the collaborator; out is what the collaborator returned.
RefineRegenerate(st, out) ==
    IF st.draft_plan = None
    THEN Raised(st)                      \* state.draft_plan.dict() on None
    ELSE CASE out = "plan_json" ->
                Returned([st EXCEPT
                    !.refined_plan = "reworked",
                    !.requires_human_input = TRUE,
                    !.checkpoint_id = "plan_review",
                    !.draft_plan = "reworked",
                    !.current_node = "refinement"])
           [] out = "not_json" ->
                Returned([st EXCEPT
                    !.refined_plan = st.draft_plan,
                    !.requires_human_input = FALSE,
                    !.checkpoint_id = None,
                    !.current_node = "refinement"])
           [] OTHER -> Raised(st)        \* plan_data['introduction']: KeyError

\* The decisions the refine node has a branch for.
RefineHandled == {"approve", "rework", "emphasize_topic"}

refinement_node(st, out) ==
    LET feedback == RefineFeedback(st) IN
    IF feedback = None
    THEN Returned([st EXCEPT
            !.refined_plan = st.draft_plan,
            !.current_node = "refinement",
            !.requires_human_input = FALSE,
            !.checkpoint_id = None])
    ELSE IF feedback = "approve"
    THEN IF st.draft_plan = None
         THEN Raised(st)                 \* len(state.refined_plan.sections)
         ELSE Returned([st EXCEPT
                !.refined_plan = st.draft_plan,
                !.requires_human_input = FALSE,
                !.checkpoint_id = None,
                !.current_node = "refinement"])
    ELSE IF feedback \in RefineHandled
    THEN RefineRegenerate(st, out)
    ELSE Raised(st)                      \* prompt is unbound when it is logged

brief_node(st) ==
    Returned([st EXCEPT
        !.final_brief = TRUE,
        !.current_node = "brief",
        !.requires_human_input = FALSE])

formatting_node(st) ==
    IF st.final_brief
    THEN Returned([st EXCEPT !.formatted_brief = TRUE,
                             !.current_node = "formatting"])
    ELSE Raised(st)                      \* metadata + None

Handler(node, st, out) ==
    CASE node = "input"      -> input_node(st)
      [] node = "plan"       -> research_plan_node(st)
      [] node = "search"     -> search_node(st)
      [] node = "extract"    -> extract_node(st)
      [] node = "prioritize" -> author_prioritization_node(st)
      [] node = "synthesize" -> synthesis_node(st)
      [] node = "refine"     -> refinement_node(st, out)
      [] node = "brief"      -> brief_node(st)
      [] node = "format"     -> formatting_node(st)

(***************************************************************************)
(* The graph (graph.py, create_research_graph)                             *)
(***************************************************************************)

\* should_continue_after_plan: defined next to the graph but given to no
\* edge; it returns "search" whether the plan is approved or not.
should_continue_after_plan(st) ==
    IF st.plan_approved THEN "search" ELSE "search"

should_wait_elsewhere(st) ==
    IF st.requires_human_input /\ st.checkpoint_id = "fact_verification"
    THEN "verify" ELSE "brief"

should_wait_for_fact_verification(st) ==
    IF st.requires_human_input /\ st.checkpoint_id = "fact_verification"
    THEN "wait" ELSE "brief"

\* The node that follows node once it has produced state st.
Successor(node, st) ==
    CASE node = "input"      -> "plan"
      [] node = "plan"       -> "search"
      [] node = "search"     -> "extract"
      [] node = "extract"    -> "prioritize"
      [] node = "prioritize" -> "synthesize"
      [] node = "synthesize" -> "refine"
      [] node = "refine"     ->
            IF should_wait_for_fact_verification(st) = "wait"
            THEN "refine" ELSE "brief"
      [] node = "brief"      -> "format"
      [] node = "format"     -> END

\* The unconditional edges added to the graph, and the mapping from the
\* values of the decision function to the successors of refine.
Edges ==
    {<<"input", "plan">>, <<"plan", "search">>, <<"search", "extract">>,
     <<"extract", "prioritize">>, <<"prioritize", "synthesize">>,
     <<"synthesize", "refine">>, <<"brief", "format">>, <<"format", END>>}

RefinePathMap == [wait |-> "refine", brief |-> "brief"]

(***************************************************************************)
(* The scheduler of the compiled graph (the library the program drives).   *)
(* A checkpoint of a thread is the state values and the pending node.      *)
(* A stream executes pending nodes one by one and halts at END or before a *)
(* node of InterruptBefore, except that the first step of a stream that    *)
(* resumes a checkpoint executes the pending node whatever it is.          *)
(***************************************************************************)

NoCheckpoint == [values |-> InitialState, next |-> END]

\* A scheduler that halts at END only: it ignores interrupt_before.
HaltsAtEndOnly(next, first) == next = END

\* A scheduler that halts before every interrupt node, also when the node is
\* the first step of a resuming stream.
HaltsAlways(next, first) == next = END \/ next \in InterruptBefore

\* Whether a stream in which `first` tells that nothing has run yet stops
\* before executing the pending node.
Halts(next, first) == next = END \/ (next \in InterruptBefore /\ ~first)

\* research_graph.update_state(config, patch, as_node): the fields of patch
\* are written as if as_node had returned them, so that the successor of
\* as_node is pending afterwards.
UpdateState(cp, patch, as_node) ==
    LET vals == [f \in DOMAIN cp.values |->
                    IF f \in DOMAIN patch THEN patch[f] ELSE cp.values[f]]
    IN [values |-> vals, next |-> Successor(as_node, vals)]

\* research_graph.astream(state, config): a stream given an input starts at
\* the entry point with the input as the state values.
StartFrom(input) == [values |-> input, next |-> EntryPoint]

\* Whether the update a stream yields for a node is a ResearchState object
\* (main.py tests isinstance(node_state, ResearchState)).  In "updates"
\* mode the library yields a dict of the written fields.
EventIsResearchState == FALSE

(***************************************************************************)
(* The execution logger (logger.py): one object shared by all handlers.    *)
(* current_session_id is represented by the session whose input node       *)
(* started the logging session, current_session_logs by the number of      *)
(* entries written on behalf of each session.                              *)
(***************************************************************************)

NoEntries == [s \in AllSessionIds |-> 0]

NoLogger == [current_session_id |-> None, current_session_logs |-> NoEntries]

\* ExecutionLogger.start_session, called by the input node of session s.
start_session(lg, s) ==
    [current_session_id |-> s, current_session_logs |-> NoEntries]

\* ExecutionLogger.log_node_execution, called by a node of session s.
log_node_execution(lg, s) ==
    [lg EXCEPT !.current_session_logs[s] = @ + 1]

\* ExecutionLogger.end_session, called by the formatting node.
end_session(lg) ==
    IF lg.current_session_id = None THEN lg ELSE NoLogger

\* The logger after node has returned in a stream of session s.
LoggerAfter(node, s, lg) ==
    CASE node = "input"  -> log_node_execution(start_session(lg, s), s)
      [] node = "format" -> end_session(log_node_execution(lg, s))
      [] OTHER           -> log_node_execution(lg, s)

(***************************************************************************)
(* The lists of the state record that the search, extract and prioritize   *)
(* nodes build, and the preview the driver sends at the plan_review        *)
(* checkpoint.  A citation is its id, a search result the id of its        *)
(* citation, a claim its text (a number that tells claims apart), the id   *)
(* of its citation and its confidence in tenths.                           *)
(***************************************************************************)

NoPipeline ==
    [stage |-> "input", citations |-> << >>, search_results |-> << >>,
     extracted_claims |-> << >>, prioritized_claims |-> << >>,
     facts_for_verification |-> << >>, preview |-> << >>]

\* seq[:n]
Take(seq, n) == SubSeq(seq, 1, IF n < Len(seq) THEN n ELSE Len(seq))

\* search_node, the loop over the results of one query: n results, each
\* given the next citation id.
SameCitationId(citation_id) == citation_id

NextCitationId(citation_id) == citation_id + 1

RECURSIVE AddResults(_, _)
AddResults(n, acc) ==
    IF n = 0 THEN acc
    ELSE AddResults(n - 1,
            [citation_id |-> NextCitationId(acc.citation_id),
             citations |-> Append(acc.citations, [id |-> acc.citation_id]),
             all_results |-> Append(acc.all_results,
                                    [citation_id |-> acc.citation_id])])

RECURSIVE SearchQueries(_, _)
SearchQueries(queries, acc) ==
    IF queries = << >> THEN acc
    ELSE SearchQueries(Tail(queries), AddResults(Head(queries), acc))

\* search_node on the lists: queries[i] is the number of results the search
\* collaborator returns for the i-th query.
search_node_citations(d, queries) ==
    LET acc == SearchQueries(Take(queries, QueryLimit),
                   [citation_id |-> 1, citations |-> d.citations,
                    all_results |-> << >>])
    IN [d EXCEPT !.citations = acc.citations,
                 !.search_results = acc.all_results,
                 !.stage = "search"]

\* extract_node: the citation id given to a claim the collaborator returned.
ValidCitationIds(d) ==
    {d.search_results[i].citation_id : i \in 1..Len(d.search_results)}

DefaultCitationId(d) ==
    IF d.search_results # << >> THEN d.search_results[1].citation_id ELSE 1

ClaimCitationId(d, claim_data) ==
    LET citation_id == IF claim_data.has_citation_id
                       THEN claim_data.citation_id
                       ELSE DefaultCitationId(d)
    IN IF citation_id \notin ValidCitationIds(d)
       THEN DefaultCitationId(d) ELSE citation_id

ClaimConfidence(claim_data) ==
    IF claim_data.has_confidence THEN claim_data.confidence ELSE 7

\* extract_node on the lists: claims_response is what the collaborator
\* returned, JSON with a list of claims or something json.loads rejects.
extract_node_claims(d, claims_response) ==
    LET claims_data == claims_response.claims
        new ==
          IF ~claims_response.json
          THEN LET rs == Take(d.search_results, FallbackLimit) IN
               [i \in 1..Len(rs) |->
                   [claim |-> i, citation_id |-> rs[i].citation_id,
                    confidence |-> 6]]
          ELSE [i \in 1..Len(claims_data) |->
                   [claim |-> i,
                    citation_id |-> ClaimCitationId(d, claims_data[i]),
                    confidence |-> ClaimConfidence(claims_data[i])]]
    IN [d EXCEPT !.extracted_claims = @ \o new, !.stage = "extract"]

\* author_prioritization_node: the score of a claim without author, date
\* or digits and of at most 100 characters, in units of 1/10 of the
\* source's; and the stable sort by descending score.
Score(claim) == claim.confidence * 4

RECURSIVE InsertByScore(_, _)
InsertByScore(claim, sorted) ==
    IF sorted = << >> THEN <<claim>>
    ELSE IF Score(Head(sorted)) >= Score(claim)
         THEN <<Head(sorted)>> \o InsertByScore(claim, Tail(sorted))
         ELSE <<claim>> \o sorted

RECURSIVE SortByScore(_)
SortByScore(claims) ==
    IF claims = << >> THEN << >>
    ELSE InsertByScore(claims[Len(claims)],
                       SortByScore(SubSeq(claims, 1, Len(claims) - 1)))

\* A prioritize node that keeps the claims in the order extract left them.
author_prioritization_unsorted(d) ==
    LET scored_claims == d.extracted_claims IN
    [d EXCEPT !.prioritized_claims = Take(scored_claims, PrioritizedLimit),
              !.facts_for_verification = Take(scored_claims, FactsLimit),
              !.stage = "prioritize"]

author_prioritization_facts(d) ==
    LET scored_claims == SortByScore(d.extracted_claims) IN
    [d EXCEPT !.prioritized_claims = Take(scored_claims, PrioritizedLimit),
              !.facts_for_verification = Take(scored_claims, FactsLimit),
              !.stage = "prioritize"]

\* The driver at the plan_review checkpoint: the facts it serializes for
\* the hitl_required message, with the url looked up by citation id (the
\* url of a citation is written as its id, the empty url as 0).
CitationUrl(d, citation_id) ==
    IF \E i \in 1..Len(d.citations) : d.citations[i].id = citation_id
    THEN citation_id ELSE 0

SerializedFact(d, fact) ==
    [claim |-> fact.claim, confidence |-> fact.confidence,
     url |-> CitationUrl(d, fact.citation_id)]

serialized_facts_reversed(d) ==
    LET facts == Take(d.facts_for_verification, PreviewLimit) IN
    [i \in 1..Len(facts) |-> SerializedFact(d, facts[Len(facts) + 1 - i])]

serialized_facts(d) ==
    LET facts == Take(d.facts_for_verification, PreviewLimit) IN
    [i \in 1..Len(facts) |-> SerializedFact(d, facts[i])]

(***************************************************************************)
(* Variables                                                               *)
(***************************************************************************)

VARIABLES
    execution_states,   \* session id -> [state, status], the created sessions
    active_connections, \* session id -> connection
    graph_state,        \* thread id -> checkpoint of the compiled graph
    pc,                 \* connection -> where its endpoint coroutine stands
    session_id,         \* connection -> the session id of its path
    phase,              \* connection -> which astream loop it is in
    first,              \* connection -> the current stream has run no node yet
    waiting_for,        \* connection -> checkpoint of the current wait
    timeout,            \* connection -> the poll counter of the current wait
    events,             \* connection -> messages sent over the websocket
    loop,               \* connection -> the checkpoint its stream works on
    execution_logger,   \* the logger all node handlers share
    trace,              \* session id -> nodes invoked: run, position, returned
    runs,               \* session id -> number of streams started
    applied,            \* session id -> feedback read by the driver at resumes
    feedback_calls,     \* session id -> number of submit_feedback calls
    response,           \* session id -> answer to the last submit_feedback
    received,           \* session id -> decisions submitted to waiting drivers
    pipeline            \* the lists search, extract and prioritize build

vars == <<execution_states, active_connections, graph_state, pc, session_id,
          phase, first, waiting_for, timeout, events, loop, execution_logger,
          trace, runs, applied, feedback_calls, response, received,
          pipeline>>

driver_vars == <<pc, session_id, phase, first, waiting_for, timeout, events,
                 loop, execution_logger, pipeline>>

Created == DOMAIN execution_states

Init ==
    /\ execution_states = [s \in {} |-> 0]
    /\ active_connections = [s \in {} |-> 0]
    /\ graph_state = [s \in AllSessionIds |-> NoCheckpoint]
    /\ pc = [c \in AllConnIds |-> "idle"]
    /\ session_id = [c \in AllConnIds |-> NoSession]
    /\ phase = [c \in AllConnIds |-> None]
    /\ first = [c \in AllConnIds |-> FALSE]
    /\ waiting_for = [c \in AllConnIds |-> None]
    /\ timeout = [c \in AllConnIds |-> 0]
    /\ events = [c \in AllConnIds |-> << >>]
    /\ loop = [c \in AllConnIds |-> NoCheckpoint]
    /\ execution_logger = NoLogger
    /\ trace = [s \in AllSessionIds |-> << >>]
    /\ runs = [s \in AllSessionIds |-> 0]
    /\ applied = [s \in AllSessionIds |-> << >>]
    /\ feedback_calls = [s \in AllSessionIds |-> 0]
    /\ response = [s \in AllSessionIds |-> None]
    /\ received = [s \in AllSessionIds |-> << >>]
    /\ pipeline = NoPipeline

(***************************************************************************)
(* Helpers on the variables                                                *)
(***************************************************************************)

Event(type, tag, data) == [type |-> type, tag |-> tag, data |-> data]

Send(c, ev) == events' = [events EXCEPT ![c] = Append(@, ev)]

\* f with key k bound to v (k is added to the domain when it is new).
Put(f, k, v) == [x \in DOMAIN f \cup {k} |-> IF x = k THEN v ELSE f[x]]

\* f without key k.
Del(f, k) == [x \in DOMAIN f \ {k} |-> f[x]]

\* An assignment that writes the status of every session.
SetStatusOfAll(s, st) ==
    execution_states' =
        [x \in DOMAIN execution_states |->
            [execution_states[x] EXCEPT !.status = st]]

SetStatus(s, st) ==
    execution_states' = [execution_states EXCEPT ![s].status = st]

\* The finally clause of websocket_endpoint.
Cleanup(s) == active_connections' = Del(active_connections, s)

\* A stream is started by connection c on the thread of session s: it loads
\* the checkpoint cp of the thread and works on its own copy of it.
OpenStream(c, s, ph, cp) ==
    /\ pc' = [pc EXCEPT ![c] = "stream"]
    /\ loop' = [loop EXCEPT ![c] = cp]
    /\ phase' = [phase EXCEPT ![c] = ph]
    /\ first' = [first EXCEPT ![c] = TRUE]
    /\ runs' = [runs EXCEPT ![s] = @ + 1]

\* The hitl_required message is sent; the driver then sleeps 0.1 s.
AskHuman(c, checkpoint, data) ==
    /\ Send(c, Event("hitl_required", checkpoint, data))
    /\ pc' = [pc EXCEPT ![c] = "settle"]
    /\ waiting_for' = [waiting_for EXCEPT ![c] = checkpoint]

\* The status the driver sets while it waits at a checkpoint.
WaitingStatus(checkpoint) ==
    CASE checkpoint = "research_plan"     -> "waiting_research_plan"
      [] checkpoint = "plan_review"       -> "waiting_plan_review"
      [] checkpoint = "plan_approval"     -> "waiting_plan_approval"
      [] checkpoint = "fact_verification" -> "waiting_fact_verification"

(***************************************************************************)
(* HTTP endpoints                                                          *)
(***************************************************************************)

\* POST /research/start: a new session under a fresh id.
start_research(s) ==
    /\ s \notin Created
    /\ execution_states' =
           Put(execution_states, s,
               [state |-> InitialState, status |-> "initialized"])
    /\ UNCHANGED <<active_connections, graph_state, driver_vars, trace, runs,
                   applied, feedback_calls, response, received>>

\* The state record of a session after submit_feedback has stored decision
\* under checkpoint_type.
StoreFeedbackOnly(st, checkpoint_type, decision) ==
    IF checkpoint_type \in KnownCheckpoints
    THEN [f \in DOMAIN st |->
             IF f = SlotOf(checkpoint_type) THEN decision
             ELSE IF f \in FeedbackSlots THEN None
             ELSE IF f = "requires_human_input" THEN FALSE
             ELSE st[f]]
    ELSE st

StoreFeedback(st, checkpoint_type, decision) ==
    IF checkpoint_type \in KnownCheckpoints
    THEN [[st EXCEPT ![SlotOf(checkpoint_type)] = decision]
             EXCEPT !.requires_human_input = FALSE]
    ELSE st

\* The status of a session after submit_feedback, given the status before.
StatusAfterFeedback(status, checkpoint_type) ==
    IF checkpoint_type \in KnownCheckpoints THEN "processing" ELSE status

\* The checkpoint session s is suspended at: its status is the waiting
\* status of the checkpoint and its driver is in the polling loop of that
\* wait.  None when there is no such checkpoint.
SuspendedAt(s) ==
    IF \E c \in AllConnIds :
          /\ session_id[c] = s
          /\ pc[c] = "poll"
          /\ execution_states[s].status = WaitingStatus(waiting_for[c])
    THEN waiting_for[CHOOSE c \in AllConnIds :
             /\ session_id[c] = s
             /\ pc[c] = "poll"
             /\ execution_states[s].status = WaitingStatus(waiting_for[c])]
    ELSE None

\* POST /research/feedback for a session that exists.
submit_feedback_call(s, checkpoint_type, decision) ==
    /\ s \in Created
    /\ received' = [received EXCEPT ![s] =
           IF SuspendedAt(s) = None THEN @
           ELSE Append(@, [at |-> SuspendedAt(s),
                           checkpoint_type |-> checkpoint_type,
                           decision |-> decision])]
    /\ execution_states' = [execution_states EXCEPT
           ![s].state = StoreFeedback(@, checkpoint_type, decision),
           ![s].status = StatusAfterFeedback(@, checkpoint_type)]
    /\ response' = [response EXCEPT ![s] = "feedback_received"]
    /\ feedback_calls' = [feedback_calls EXCEPT ![s] = @ + 1]
    /\ UNCHANGED <<active_connections, graph_state, driver_vars, trace, runs,
                   applied>>

\* The calls the clients make while their budget of calls lasts.
submit_feedback(s, checkpoint_type, decision) ==
    /\ feedback_calls[s] < MaxFeedback
    /\ submit_feedback_call(s, checkpoint_type, decision)

\* POST /research/feedback for a session id that is not in execution_states.
submit_feedback_unknown(s) ==
    /\ s \notin Created
    /\ feedback_calls[s] < MaxFeedback
    /\ response' = [response EXCEPT ![s] = "404"]
    /\ feedback_calls' = [feedback_calls EXCEPT ![s] = @ + 1]
    /\ UNCHANGED <<execution_states, active_connections, graph_state,
                   driver_vars, trace, runs, applied, received>>

\* An endpoint that answers for every session id.
get_status_any(s) ==
    [code |-> "200", status |-> "initialized", current_node |-> "input"]

\* GET /research/status/{session_id}: what the endpoint answers.
get_status(s) ==
    IF s \in Created
    THEN [code |-> "200",
          status |-> execution_states[s].status,
          current_node |-> execution_states[s].state.current_node]
    ELSE [code |-> "404", status |-> None, current_node |-> None]

(***************************************************************************)
(* The websocket endpoint: the driver of a session                         *)
(***************************************************************************)

\* The connection is accepted for an unknown session id: an error message,
\* close, and the finally clause.
ws_invalid_session(c, s) ==
    /\ pc[c] = "idle"
    /\ s \notin Created
    /\ Send(c, Event("error", "invalid_session", 0))
    /\ pc' = [pc EXCEPT ![c] = "closed"]
    /\ session_id' = [session_id EXCEPT ![c] = s]
    /\ Cleanup(s)
    /\ UNCHANGED <<execution_states, graph_state, phase, first, waiting_for,
                   timeout, trace, runs, applied, feedback_calls, response, received,
                   loop, execution_logger, pipeline>>

\* The connection is accepted for a session: it is registered and the
\* status message is sent.
ws_connect(c, s) ==
    /\ pc[c] = "idle"
    /\ s \in Created
    /\ active_connections' = Put(active_connections, s, c)
    /\ session_id' = [session_id EXCEPT ![c] = s]
    /\ Send(c, Event("status", "starting", 0))
    /\ pc' = [pc EXCEPT ![c] = "connected"]
    /\ UNCHANGED <<execution_states, graph_state, phase, first, waiting_for,
                   timeout, trace, runs, applied, feedback_calls, response, received,
                   loop, execution_logger, pipeline>>

\* research_graph.astream(state, config): the initial execution.
ws_begin(c) ==
    LET s == session_id[c] IN
    /\ pc[c] = "connected"
    /\ graph_state' = [graph_state EXCEPT
                          ![s] = StartFrom(execution_states[s].state)]
    /\ OpenStream(c, s, "initial", StartFrom(execution_states[s].state))
    /\ UNCHANGED <<execution_states, active_connections, session_id,
                   waiting_for, timeout, events, trace, applied,
                   feedback_calls, response, received,
                   execution_logger, pipeline>>

\* The output a collaborator may give to a node: only refine's steers it.
OutputsOf(node) == IF node = "refine" THEN RefineOutputs ELSE {"plan_json"}

\* One step of a stream: the pending node runs and returns, the checkpoint
\* is rewritten and the driver sends node_complete.
stream_node(c) ==
    LET s == session_id[c]
        cp == loop[c]
    IN
    /\ pc[c] = "stream"
    /\ ~Halts(cp.next, first[c])
    /\ \E out \in OutputsOf(cp.next) :
          LET r == Handler(cp.next, cp.values, out) IN
          /\ r.ok
          /\ loop' = [loop EXCEPT
                 ![c] = [values |-> r.state,
                         next |-> Successor(cp.next, r.state)]]
          /\ graph_state' = [graph_state EXCEPT ![s] = loop'[c]]
          /\ execution_logger' = LoggerAfter(cp.next, s, execution_logger)
          /\ execution_states' =
                 IF EventIsResearchState
                 THEN [execution_states EXCEPT ![s].state = r.state]
                 ELSE execution_states
    /\ trace' = [trace EXCEPT
           ![s] = Append(@, [node |-> cp.next, run |-> runs[s],
                             first |-> first[c], ok |-> TRUE])]
    /\ first' = [first EXCEPT ![c] = FALSE]
    /\ Send(c, Event("node_complete", cp.next, 0))
    /\ UNCHANGED <<active_connections, pc, session_id, phase, waiting_for,
                   timeout, runs, applied, feedback_calls, response, received,
                   pipeline>>

\* One step of a stream: the pending node raises.  The checkpoint keeps the
\* node pending; the driver reports the failure and returns.
stream_node_raises(c) ==
    LET s == session_id[c]
        cp == loop[c]
    IN
    /\ pc[c] = "stream"
    /\ ~Halts(cp.next, first[c])
    /\ \E out \in OutputsOf(cp.next) : ~Handler(cp.next, cp.values, out).ok
    /\ trace' = [trace EXCEPT
           ![s] = Append(@, [node |-> cp.next, run |-> runs[s],
                             first |-> first[c], ok |-> FALSE])]
    /\ Send(c, Event("error", "graph_execution_failed", 0))
    /\ pc' = [pc EXCEPT ![c] = "closed"]
    /\ Cleanup(s)
    /\ UNCHANGED <<execution_states, graph_state, session_id, phase, first,
                   waiting_for, timeout, runs, applied, feedback_calls,
                   response, received,
                   loop, execution_logger, pipeline>>

\* What the driver does when a stream of the given loop has ended with
\* checkpoint cp: ask the human at a checkpoint, start another stream, or
\* finish.
Ask(checkpoint, data) == [kind |-> "ask", arg |-> checkpoint, data |-> data]
Resume(ph) == [kind |-> "stream", arg |-> ph, data |-> 0]
Finish == [kind |-> "finish", arg |-> None, data |-> 0]

\* The head of the plan-revision loop (while not plan_approved).
PlanLoopHead(cp) ==
    IF cp.values.research_plan.present
    THEN Ask("research_plan", cp.values.research_plan.revision_count)
    ELSE Resume("search")

\* A driver that takes the end of the synthesize stream for the end of the
\* workflow, whatever node is pending.
AfterStreamEarly(ph, cp) ==
    CASE ph = "initial" ->
            IF cp.next = "search" THEN PlanLoopHead(cp)
            ELSE IF cp.next = "synthesize" THEN Ask("plan_review", 0)
            ELSE Finish
      [] ph = "revise" -> PlanLoopHead(cp)
      [] ph = "search" ->
            IF cp.next = "synthesize" THEN Ask("plan_review", 0) ELSE Finish
      [] OTHER -> Finish

AfterStream(ph, cp) ==
    CASE ph = "initial" ->
            IF cp.next = "search" THEN PlanLoopHead(cp)
            ELSE IF cp.next = "synthesize" THEN Ask("plan_review", 0)
            ELSE Finish
      [] ph = "revise" -> PlanLoopHead(cp)
      [] ph = "search" ->
            IF cp.next = "synthesize" THEN Ask("plan_review", 0) ELSE Finish
      [] ph = "synthesize" ->
            IF cp.next = "refine" /\ cp.values.draft_plan # None
            THEN Ask("plan_approval", 0) ELSE Finish
      [] ph = "refine" ->
            IF cp.next = "brief"
            THEN IF cp.values.requires_human_input
                    /\ cp.values.checkpoint_id = "fact_verification"
                 THEN Ask("fact_verification", 0)
                 ELSE Resume("final")
            ELSE Finish
      [] OTHER -> Finish

\* The stream has ended: the driver reads the checkpoint and goes on until
\* its next await.
stream_end(c) ==
    LET s == session_id[c]
        cp == graph_state[s]
        k == AfterStream(phase[c], cp)
    IN
    /\ pc[c] = "stream"
    /\ Halts(loop[c].next, first[c])
    /\ IF k.kind = "ask"
       THEN /\ AskHuman(c, k.arg, k.data)
            /\ UNCHANGED <<phase, first, runs, loop>>
       ELSE IF k.kind = "stream"
       THEN /\ OpenStream(c, s, k.arg, cp)
            /\ UNCHANGED <<events, waiting_for>>
       ELSE /\ Send(c, Event("complete", None, 0))
            /\ pc' = [pc EXCEPT ![c] = "completing"]
            /\ UNCHANGED <<phase, first, runs, waiting_for, loop>>
    /\ UNCHANGED <<execution_states, active_connections, graph_state,
                   session_id, timeout, trace, applied, feedback_calls,
                   response, received,
                   execution_logger, pipeline>>

\* After the complete message: the status is set and the endpoint returns.
ws_completed(c) ==
    LET s == session_id[c] IN
    /\ pc[c] = "completing"
    /\ SetStatus(s, "completed")
    /\ pc' = [pc EXCEPT ![c] = "closed"]
    /\ Cleanup(s)
    /\ UNCHANGED <<graph_state, session_id, phase, first, waiting_for,
                   timeout, events, trace, runs, applied, feedback_calls,
                   response, received,
                   loop, execution_logger, pipeline>>

(***************************************************************************)
(* Waiting for feedback                                                    *)
(***************************************************************************)

\* The condition of the polling loop.
KeepsWaiting(status, checkpoint, t) ==
    status = WaitingStatus(checkpoint) /\ t < TimeoutLimit

\* A test that lets the counter reach the limit without a timeout.
TimedOutLate(t) == t > TimeoutLimit

\* The test made when the polling loop has ended.
TimedOut(t) == t >= TimeoutLimit

\* After the 0.1 s pause that follows hitl_required: the status becomes
\* waiting, the counter starts at 0 and the first sleep of the loop begins.
ws_wait(c) ==
    LET s == session_id[c] IN
    /\ pc[c] = "settle"
    /\ SetStatus(s, WaitingStatus(waiting_for[c]))
    /\ timeout' = [timeout EXCEPT ![c] = 0]
    /\ pc' = [pc EXCEPT ![c] = "poll"]
    /\ UNCHANGED <<active_connections, graph_state, session_id, phase, first,
                   waiting_for, events, trace, runs, applied, feedback_calls,
                   response, received,
                   loop, execution_logger, pipeline>>

\* The sleeps of the polling loop after which the loop goes on: the status
\* is unchanged and the incremented counter is below the limit.  Iterations
\* that no other action separates differ in the counter only, so they are
\* taken in one step, up to the last iteration that keeps the loop going;
\* the counter still counts every iteration.
poll_sleep(c) ==
    LET s == session_id[c] IN
    /\ pc[c] = "poll"
    /\ KeepsWaiting(execution_states[s].status, waiting_for[c], timeout[c] + 1)
    /\ timeout' = [timeout EXCEPT ![c] = TimeoutLimit - 1]
    /\ UNCHANGED <<execution_states, active_connections, graph_state, pc,
                   session_id, phase, first, waiting_for, events, trace, runs,
                   applied, feedback_calls, response, received,
                   loop, execution_logger, pipeline>>

\* The loop has ended with the counter at its limit: an error message and
\* the endpoint returns.
\* A driver that reports the timeout without returning, and goes on to the
\* completion message.
poll_timeout_without_return(c) ==
    LET s == session_id[c] IN
    /\ pc[c] = "poll"
    /\ ~KeepsWaiting(execution_states[s].status, waiting_for[c], timeout[c] + 1)
    /\ TimedOut(timeout[c] + 1)
    /\ events' = [events EXCEPT ![c] =
           Append(Append(@, Event("error", "timeout", 0)),
                  Event("complete", None, 0))]
    /\ timeout' = [timeout EXCEPT ![c] = @ + 1]
    /\ pc' = [pc EXCEPT ![c] = "completing"]
    /\ UNCHANGED <<execution_states, active_connections, graph_state,
                   session_id, phase, first, waiting_for, trace, runs,
                   applied, feedback_calls, response, received, loop,
                   execution_logger, pipeline>>

poll_timeout(c) ==
    LET s == session_id[c] IN
    /\ pc[c] = "poll"
    /\ ~KeepsWaiting(execution_states[s].status, waiting_for[c], timeout[c] + 1)
    /\ TimedOut(timeout[c] + 1)
    /\ Send(c, Event("error", "timeout", 0))
    /\ timeout' = [timeout EXCEPT ![c] = @ + 1]
    /\ pc' = [pc EXCEPT ![c] = "closed"]
    /\ Cleanup(s)
    /\ UNCHANGED <<execution_states, graph_state, session_id, phase, first,
                   waiting_for, trace, runs, applied, feedback_calls, response, received,
                   loop, execution_logger, pipeline>>

\* The fields the driver writes into the checkpoint when it resumes from a
\* wait at checkpoint, read from the session's state record st, and the node
\* it writes them as.
ResumePatchSlotOnly(checkpoint, st) ==
    [f \in {SlotOf(checkpoint)} |-> st[SlotOf(checkpoint)]]

ResumePatch(checkpoint, st) ==
    CASE checkpoint = "research_plan" ->
            [human_feedback_research_plan |-> st.human_feedback_research_plan,
             plan_approved |-> st.human_feedback_research_plan = "approve"]
      [] checkpoint = "plan_review" ->
            [human_feedback_plan |-> st.human_feedback_plan]
      [] checkpoint = "plan_approval" ->
            [human_feedback_approval |-> st.human_feedback_approval]
      [] checkpoint = "fact_verification" ->
            [human_feedback_facts |-> st.human_feedback_facts,
             requires_human_input |-> FALSE,
             checkpoint_id |-> None]

ResumeAsNode(checkpoint, st) ==
    CASE checkpoint = "research_plan" ->
            IF st.human_feedback_research_plan = "approve"
            THEN "plan" ELSE "input"
      [] checkpoint = "plan_review" -> "prioritize"
      [] checkpoint = "plan_approval" -> "synthesize"
      [] checkpoint = "fact_verification" -> "refine"

\* The stream loop the driver enters after the wait at checkpoint.
ResumePhase(checkpoint, st) ==
    CASE checkpoint = "research_plan" ->
            IF st.human_feedback_research_plan = "approve"
            THEN "search" ELSE "revise"
      [] checkpoint = "plan_review" -> "synthesize"
      [] checkpoint = "plan_approval" -> "refine"
      [] checkpoint = "fact_verification" -> "final"

\* The slot the driver reads when the wait at checkpoint has ended.
DriverSlot(checkpoint) == SlotOf(checkpoint)

\* The loop has ended before the limit because the status has changed: the
\* driver reads the feedback from the session's state record, patches the
\* checkpoint and resumes the graph.  After "approve" at the research plan
\* it marks the plan approved; after any other decision there it sends a
\* status message first and then re-runs the plan node.
poll_resume(c) ==
    LET s == session_id[c]
        st == execution_states[s].state
        k == waiting_for[c]
        ph == ResumePhase(k, st)
    IN
    /\ pc[c] = "poll"
    /\ ~KeepsWaiting(execution_states[s].status, k, timeout[c] + 1)
    /\ ~TimedOut(timeout[c] + 1)
    /\ graph_state' = [graph_state EXCEPT
           ![s] = UpdateState(@, ResumePatch(k, st), ResumeAsNode(k, st))]
    /\ applied' = [applied EXCEPT
           ![s] = Append(@, [checkpoint |-> k, decision |-> st[DriverSlot(k)],
                             run |-> runs[s] + 1,
                             pending |-> graph_state'[s].next])]
    /\ execution_states' =
           IF ph = "search"
           THEN [execution_states EXCEPT ![s].state.plan_approved = TRUE]
           ELSE execution_states
    /\ timeout' = [timeout EXCEPT ![c] = 0]
    /\ IF ph = "revise"
       THEN /\ Send(c, Event("status", "revising", 0))
            /\ pc' = [pc EXCEPT ![c] = "revising"]
            /\ UNCHANGED <<phase, first, runs, loop>>
       ELSE /\ OpenStream(c, s, ph, graph_state'[s])
            /\ UNCHANGED events
    /\ UNCHANGED <<active_connections, session_id, waiting_for, trace,
                   feedback_calls, response, received,
                   execution_logger, pipeline>>

\* research_graph.astream(None, config) of the revision branch.
ws_revise(c) ==
    /\ pc[c] = "revising"
    /\ OpenStream(c, session_id[c], "revise", graph_state[session_id[c]])
    /\ UNCHANGED <<execution_states, active_connections, graph_state,
                   session_id, waiting_for, timeout, events, trace, applied,
                   feedback_calls, response, received,
                   execution_logger, pipeline>>

(***************************************************************************)
(* Specification                                                           *)
(***************************************************************************)

Next ==
    \/ \E s \in SessionIds : start_research(s)
    \/ \E s \in SessionIds, t \in CheckpointTypes, d \in Decisions :
          submit_feedback(s, t, d)
    \/ \E s \in SessionIds : submit_feedback_unknown(s)
    \/ \E c \in ConnIds, s \in SessionIds : ws_invalid_session(c, s)
    \/ \E c \in ConnIds, s \in SessionIds : ws_connect(c, s)
    \/ \E c \in ConnIds : ws_begin(c)
    \/ \E c \in ConnIds : stream_node(c)
    \/ \E c \in ConnIds : stream_node_raises(c)
    \/ \E c \in ConnIds : stream_end(c)
    \/ \E c \in ConnIds : ws_wait(c)
    \/ \E c \in ConnIds : poll_sleep(c)
    \/ \E c \in ConnIds : poll_timeout(c)
    \/ \E c \in ConnIds : poll_resume(c)
    \/ \E c \in ConnIds : ws_revise(c)
    \/ \E c \in ConnIds : ws_completed(c)

Spec == Init /\ [][Next]_vars

(***************************************************************************)
(* Two sessions side by side: each session has a connection of its own.    *)
(* The clients answer the checkpoint they are asked at.                    *)
(***************************************************************************)

\* A call that answers the checkpoint session s is suspended at.
AwaitedCall(s, checkpoint_type) == checkpoint_type = SuspendedAt(s)

\* The session id each connection of the two-session specification is
\* opened on.
PairSession(c) == IF c = "c1" THEN "s1" ELSE "s2"

\* The number of calls the clients of the two-session specification make
\* to session s.
PairBudget(s) == IF s \in SessionIds THEN MaxFeedback ELSE MaxFeedbackSecond

NextPair ==
    \/ \E s \in AllSessionIds : start_research(s)
    \/ \E s \in AllSessionIds, t \in KnownCheckpoints, d \in Decisions :
          /\ feedback_calls[s] < PairBudget(s)
          /\ AwaitedCall(s, t)
          /\ submit_feedback(s, t, d)
    \/ \E s \in AllSessionIds :
          feedback_calls[s] < PairBudget(s) /\ submit_feedback_unknown(s)
    \/ \E c \in AllConnIds : ws_invalid_session(c, PairSession(c))
    \/ \E c \in AllConnIds : ws_connect(c, PairSession(c))
    \/ \E c \in AllConnIds : ws_begin(c)
    \/ \E c \in AllConnIds : stream_node(c)
    \/ \E c \in AllConnIds : stream_node_raises(c)
    \/ \E c \in AllConnIds : stream_end(c)
    \/ \E c \in AllConnIds : ws_wait(c)
    \/ \E c \in AllConnIds : poll_sleep(c)
    \/ \E c \in AllConnIds : poll_timeout(c)
    \/ \E c \in AllConnIds : poll_resume(c)
    \/ \E c \in AllConnIds : ws_revise(c)
    \/ \E c \in AllConnIds : ws_completed(c)

SpecPair == Init /\ [][NextPair]_vars

\* ---- One session whose client also calls after completion ----

\* The number of calls the client makes after the session has completed.
MaxLate == 1

\* The status of session s is completed.
IsCompleted(s) == s \in Created /\ execution_states[s].status = "completed"

\* One session driven over one channel. The client answers the checkpoint
\* the session waits at, and after the session has completed it submits
\* feedback again (a late or repeated call).
NextLate ==
    \/ \E s \in SessionIds : start_research(s)
    \/ \E s \in SessionIds, t \in KnownCheckpoints, d \in Decisions :
          /\ AwaitedCall(s, t)
          /\ submit_feedback(s, t, d)
    \/ \E s \in SessionIds, t \in CheckpointTypes, d \in Decisions :
          /\ IsCompleted(s)
          /\ feedback_calls[s] < MaxFeedback + MaxLate
          /\ submit_feedback_call(s, t, d)
    \/ \E s \in SessionIds : submit_feedback_unknown(s)
    \/ \E c \in ConnIds, s \in SessionIds : ws_invalid_session(c, s)
    \/ \E c \in ConnIds, s \in SessionIds : ws_connect(c, s)
    \/ \E c \in ConnIds : ws_begin(c)
    \/ \E c \in ConnIds : stream_node(c)
    \/ \E c \in ConnIds : stream_node_raises(c)
    \/ \E c \in ConnIds : stream_end(c)
    \/ \E c \in ConnIds : ws_wait(c)
    \/ \E c \in ConnIds : poll_sleep(c)
    \/ \E c \in ConnIds : poll_timeout(c)
    \/ \E c \in ConnIds : poll_resume(c)
    \/ \E c \in ConnIds : ws_revise(c)
    \/ \E c \in ConnIds : ws_completed(c)

SpecLate == Init /\ [][NextLate]_vars

(***************************************************************************)
(* One session whose channel is opened twice: both connections are opened  *)
(* on the same session id.  The clients open one channel at a time: the    *)
(* second one when the endpoint of the first has returned.                 *)
(***************************************************************************)

\* No websocket endpoint is running.
NoDriverRuns == \A c \in AllConnIds : pc[c] \in {"idle", "closed"}

NextReopen ==
    \/ \E s \in SessionIds : start_research(s)
    \/ \E s \in SessionIds, t \in KnownCheckpoints, d \in Decisions :
          AwaitedCall(s, t) /\ submit_feedback(s, t, d)
    \/ \E s \in SessionIds : submit_feedback_unknown(s)
    \/ \E c \in AllConnIds, s \in SessionIds : ws_invalid_session(c, s)
    \/ \E c \in AllConnIds, s \in SessionIds :
          NoDriverRuns /\ ws_connect(c, s)
    \/ \E c \in AllConnIds : ws_begin(c)
    \/ \E c \in AllConnIds : stream_node(c)
    \/ \E c \in AllConnIds : stream_node_raises(c)
    \/ \E c \in AllConnIds : stream_end(c)
    \/ \E c \in AllConnIds : ws_wait(c)
    \/ \E c \in AllConnIds : poll_sleep(c)
    \/ \E c \in AllConnIds : poll_timeout(c)
    \/ \E c \in AllConnIds : poll_resume(c)
    \/ \E c \in AllConnIds : ws_revise(c)
    \/ \E c \in AllConnIds : ws_completed(c)

SpecReopen == Init /\ [][NextReopen]_vars

(***************************************************************************)
(* Vocabulary of the properties                                            *)
(***************************************************************************)

\* The checkpoint at which the human is asked before an interrupt node runs.
GateOf(node) ==
    CASE node = "search"     -> "research_plan"
      [] node = "synthesize" -> "plan_review"
      [] node = "refine"     -> "plan_approval"
      [] OTHER               -> None

\* How many invocations of node the trace of session s holds, in all runs
\* and in one run.
Invocations(s, node) ==
    Cardinality({i \in 1..Len(trace[s]) : trace[s][i].node = node})

InvocationsIn(s, node, run) ==
    Cardinality({i \in 1..Len(trace[s]) :
                    trace[s][i].node = node /\ trace[s][i].run = run})

\* Whether connection c has sent a message of the type with the tag.
Sent(c, type, tag) ==
    \E i \in 1..Len(events[c]) :
        events[c][i].type = type /\ events[c][i].tag = tag

\* The connection that drives session s, when there is one.
DriverOf(s) == {c \in AllConnIds : session_id[c] = s}

\* Run number run of session s is over: it was started, and a later stream
\* has been opened or the driver is no longer streaming.
RunOver(s, run) ==
    /\ runs[s] >= run
    /\ \/ runs[s] > run
       \/ \A c \in DriverOf(s) : pc[c] # "stream"

\* Run number run of session s has made its first step or is over.
RunStepped(s, run) ==
    \/ RunOver(s, run)
    \/ /\ runs[s] = run
       /\ \E c \in DriverOf(s) : pc[c] = "stream" /\ ~first[c]

(***************************************************************************)
(* C1                                                                      *)
(***************************************************************************)

\* C1: a node of interrupt_before (search, synthesize, refine) is never
\* executed in the scheduler run that executed its predecessor.  Every
\* invocation of such a node is the first step of a run, the run is a resume
\* the driver started after reading feedback at the node's checkpoint with
\* the node pending, the previous invocation belongs to an earlier run, and
\* hitl_required for that checkpoint was sent before; and while the driver
\* has asked the human and waits, the run has halted with the node of that
\* checkpoint as the pending node and hitl_required is the last message.
C1_InterruptNodeRunsOnlyFirstInResume ==
    /\ \A s \in SessionIds : \A i \in 1..Len(trace[s]) :
          LET e == trace[s][i] IN
          e.node \in InterruptBefore =>
             /\ e.first
             /\ i > 1 => trace[s][i-1].run < e.run
             /\ \E j \in 1..Len(applied[s]) :
                   /\ applied[s][j].run = e.run
                   /\ applied[s][j].pending = e.node
                   /\ applied[s][j].checkpoint = GateOf(e.node)
             /\ \A c \in DriverOf(s) : Sent(c, "hitl_required", GateOf(e.node))
    /\ \A c \in ConnIds :
          pc[c] \in {"settle", "poll"} =>
             /\ graph_state[session_id[c]].next \in InterruptBefore
             /\ GateOf(graph_state[session_id[c]].next) = waiting_for[c]
             /\ events[c][Len(events[c])].type = "hitl_required"
             /\ events[c][Len(events[c])].tag = waiting_for[c]

\* All three interrupt nodes have run, each in a run of its own.
C1_Witness ==
    \E s \in SessionIds :
        /\ Invocations(s, "search") > 0
        /\ Invocations(s, "synthesize") > 0
        /\ Invocations(s, "refine") > 0

(***************************************************************************)
(* C2                                                                      *)
(***************************************************************************)

ReceivedAtPlanCheckpoint(s, ds) ==
    /\ feedback_calls[s] = Len(ds)
    /\ Len(received[s]) = Len(ds)
    /\ \A i \in 1..Len(ds) :
          /\ received[s][i].at = "research_plan"
          /\ received[s][i].checkpoint_type = "research_plan"
          /\ received[s][i].decision = ds[i]

\* The driver of s has left the research-plan checkpoint for good: it has
\* returned, or it has asked the human at a later checkpoint.
PastPlanCheckpoint(s) ==
    /\ DriverOf(s) # {}
    /\ \A c \in DriverOf(s) :
          \/ pc[c] = "closed"
          \/ pc[c] \in {"settle", "poll"} /\ waiting_for[c] # "research_plan"

\* The driver of s has returned.
DriverReturned(s) ==
    /\ DriverOf(s) # {}
    /\ \A c \in DriverOf(s) : pc[c] = "closed"

\* The hitl_required messages for the research plan that c has sent.
PlanRequests(c) ==
    {i \in 1..Len(events[c]) :
        events[c][i].type = "hitl_required" /\ events[c][i].tag = "research_plan"}

\* N "revise" decisions followed by one "approve".
RevisesThenApprove(n) ==
    [i \in 1..(n + 1) |-> IF i <= n THEN "revise" ELSE "approve"]

\* C3: for every N >= 0, a session that has received N "revise" decisions
\* followed by one "approve" at the research-plan checkpoint, and whose
\* driver has left that checkpoint, has executed the plan node exactly N+1
\* times and the search node exactly once.
C3_PlanRunsPerReviseSearchOnce ==
    \A s \in SessionIds : \A n \in 0..(MaxFeedback - 1) :
        (ReceivedAtPlanCheckpoint(s, RevisesThenApprove(n))
            /\ PastPlanCheckpoint(s))
        => /\ Invocations(s, "plan") = n + 1
           /\ Invocations(s, "search") = 1

\* C4: a session whose only feedback is one "revise" submitted while it
\* waited at the research-plan checkpoint (status waiting_research_plan)
\* never re-runs the plan node more than once, and when its driver has
\* returned the plan node has re-run once, the plan's revision_count has
\* grown from 0 to 1, and a second hitl_required for the research plan,
\* carrying the regenerated plan, has been sent.
C4_ReviseRerunsPlanOnce ==
    \A s \in SessionIds :
        ReceivedAtPlanCheckpoint(s, <<"revise">>) =>
           /\ Invocations(s, "plan") <= 2
           /\ DriverReturned(s) =>
                 /\ Invocations(s, "plan") = 2
                 /\ graph_state[s].values.research_plan.revision_count = 1
                 /\ \A c \in DriverOf(s) :
                       /\ Cardinality(PlanRequests(c)) = 2
                       /\ \E i \in PlanRequests(c) : events[c][i].data = 1

\* C5: a session whose only feedback is one "approve" submitted while it
\* waited at the research-plan checkpoint has run input and plan and no
\* other node before the approval, and once its driver has returned (nothing
\* is left to be scheduled) its status is a later waiting status or
\* completed: it is not left in processing.
C5_ApproveReachesNextWaitOrCompleted ==
    \A s \in SessionIds :
        ReceivedAtPlanCheckpoint(s, <<"approve">>) =>
           /\ Len(trace[s]) >= 2
           /\ trace[s][1].node = "input" /\ trace[s][2].node = "plan"
           /\ trace[s][1].run = trace[s][2].run
           /\ Len(trace[s]) > 2 => trace[s][3].run > trace[s][2].run
           /\ DriverReturned(s) =>
                 execution_states[s].status \in
                    {"waiting_plan_review", "waiting_plan_approval",
                     "waiting_fact_verification", "completed"}

(***************************************************************************)
(* C6, C7: the timeout of a wait                                           *)
(***************************************************************************)

\* The messages of the given type that c has sent.
MessagesOfType(c, type) ==
    {i \in 1..Len(events[c]) : events[c][i].type = type}

\* Connection c has reported the timeout of a wait.
ReportedTimeout(c) == Sent(c, "error", "timeout")

\* C6: when the polling loop of a wait ends with the session still in the
\* waiting status (no feedback was submitted within the bound), the driver
\* sends an error message and returns; and a connection that has reported a
\* timeout has sent exactly one message of type error, and that message is
\* the last one: no complete and no node_complete follows it.
C6_TimeoutSendsOneErrorLast ==
    [][\A c \in ConnIds :
          /\ (/\ pc[c] = "poll"
              /\ pc'[c] # "poll"
              /\ execution_states[session_id[c]].status
                    = WaitingStatus(waiting_for[c]))
             => /\ events'[c] = Append(events[c], Event("error", "timeout", 0))
                /\ pc'[c] = "closed"
          /\ ReportedTimeout(c)' =>
                /\ Cardinality(MessagesOfType(c, "error")') = 1
                /\ events'[c][Len(events'[c])].type = "error"
                /\ pc'[c] = "closed"
      ]_vars

\* A wait in which no feedback was submitted at all has timed out.
C6_Witness ==
    \E c \in ConnIds :
        /\ ReportedTimeout(c)
        /\ feedback_calls[session_id[c]] = 0
        /\ Cardinality(MessagesOfType(c, "node_complete")) = 2

\* C7: after a suspended session has timed out waiting for feedback, its
\* status is failed and get_status reports failed.
C7_TimeoutSetsStatusFailed ==
    \A c \in ConnIds :
        ReportedTimeout(c) =>
           /\ execution_states[session_id[c]].status = "failed"
           /\ get_status(session_id[c]).status = "failed"

(***************************************************************************)
(* C8, C9, C10: feedback the session is not waiting for                    *)
(***************************************************************************)

\* Session s is in the waiting status of checkpoint type t.
WaitsAt(s, t) ==
    /\ t \in KnownCheckpoints
    /\ execution_states[s].status = WaitingStatus(t)

\* The feedback session s was given at checkpoint t has been consumed by a
\* resume that is over.
Consumed(s, t) ==
    \E j \in 1..Len(applied[s]) :
        /\ applied[s][j].checkpoint = t
        /\ applied[s][j].decision # None
        /\ RunOver(s, applied[s][j].run)

\* A first call for checkpoint t has ended the wait of s at t, and the
\* driver is still in the sleep in which the call arrived.
FirstCallPending(s, t) ==
    /\ execution_states[s].status = "processing"
    /\ \E c \in DriverOf(s) : pc[c] = "poll" /\ waiting_for[c] = t
    /\ Len(received[s]) > 0
    /\ received[s][Len(received[s])].at = t
    /\ received[s][Len(received[s])].checkpoint_type = t

\* C8: a submit_feedback call with checkpoint type X made while the session
\* is not in the waiting status of X is rejected with an error and leaves
\* the session's status and state record unchanged.
C8_FeedbackElsewhereIsRejected ==
    [][\A s \in SessionIds, t \in CheckpointTypes, d \in Decisions :
          (submit_feedback(s, t, d) /\ ~WaitsAt(s, t))
          => /\ execution_states'[s] = execution_states[s]
             /\ response'[s] # "feedback_received"
      ]_vars

\* C9: once the feedback for checkpoint X has been consumed by a completed
\* resume and the session does not wait at X again, a submit_feedback call
\* for X leaves the slot of X in the session's state record as it is.
C9_ConsumedSlotIsNotOverwritten ==
    [][\A s \in SessionIds, t \in KnownCheckpoints, d \in Decisions :
          (submit_feedback(s, t, d) /\ Consumed(s, t) /\ ~WaitsAt(s, t))
          => execution_states'[s].state[SlotOf(t)]
                = execution_states[s].state[SlotOf(t)]
      ]_vars

\* C10: a second submit_feedback call for the checkpoint of a wait, made
\* before the driver's next poll has observed the first call, leaves the
\* session's state record and status as the first call left them, so that
\* the decision applied on resume is that of the first call.
C10_SecondCallIsNoOp ==
    [][\A s \in SessionIds, t \in KnownCheckpoints, d \in Decisions :
          (submit_feedback(s, t, d) /\ FirstCallPending(s, t))
          => execution_states'[s] = execution_states[s]
      ]_vars

(***************************************************************************)
(* C11: session ids that were never created                                *)
(***************************************************************************)

\* The step is an operation on session id s: a feedback call for s is
\* answered, or a connection opened on s makes a step.
OperationOn(s) ==
    \/ feedback_calls'[s] # feedback_calls[s]
    \/ response'[s] # response[s]
    \/ \E c \in AllConnIds :
          /\ session_id'[c] = s
          /\ <<pc[c], events[c], timeout[c], loop[c]>>'
                # <<pc[c], events[c], timeout[c], loop[c]>>

\* The last message connection c has sent.
LastEvent(c) == events[c][Len(events[c])]

CreationOf(s) == s \notin Created /\ s \in DOMAIN execution_states'

\* What a session owns: its entry of execution_states (status and state
\* record) and the checkpoint of its thread (values and pending node).
SessionData(s) ==
    <<IF s \in Created THEN execution_states[s] ELSE None, graph_state[s]>>

\* C12: for any two distinct sessions A and B, no operation on A (its
\* creation, a step of its driver including its timeout and the failure of
\* one of its nodes, a feedback call for it) changes B's status, B's state
\* record or B's checkpoint.
C12_SessionIsolation ==
    [][\A a, b \in AllSessionIds :
          (a # b /\ (OperationOn(a) \/ CreationOf(a)))
          => SessionData(b)' = SessionData(b)
      ]_vars

\* One session has failed in a node while the other one waits for feedback.
C12_Witness ==
    \E a, b \in AllSessionIds :
        /\ a # b
        /\ \E c \in AllConnIds :
              session_id[c] = a /\ Sent(c, "error", "graph_execution_failed")
        /\ b \in Created
        /\ execution_states[b].status = "waiting_research_plan"

(***************************************************************************)
(* C13: the shared execution logger                                        *)
(***************************************************************************)

\* A node of session s returns in the step.
NodeReturnsIn(s) ==
    \E c \in AllConnIds : session_id[c] = s /\ stream_node(c)

\* C13: the node handlers of one session never overwrite data written on
\* behalf of another: while the execution log belongs to session A (A's
\* input node started it), a node of another session B leaves the log's
\* session id and A's entries as they are and adds no entry of B to it.
C13_LogOfOneSessionIsNotTouched ==
    [][\A a, b \in AllSessionIds :
          (/\ a # b
           /\ execution_logger.current_session_id = a
           /\ NodeReturnsIn(b))
          => /\ execution_logger'.current_session_id = a
             /\ execution_logger'.current_session_logs
                   = execution_logger.current_session_logs
      ]_vars

(***************************************************************************)
(* C14: one scheduler run per session                                      *)
(***************************************************************************)

\* The endpoint coroutine of connection c is running.
DriverRuns(c) == pc[c] \notin {"idle", "closed"}

\* Connection c has started a scheduler run from the entry point.
HasBegun(c) == loop[c] # NoCheckpoint

\* C14: for every session id at most one endpoint drives the session at any
\* time, and opening the session's channel a second time does not start a
\* second run on the session's checkpoint: at most one connection of the
\* session has ever started a run from the entry point.
C14_OneRunPerSession ==
    \A s \in AllSessionIds :
        /\ Cardinality({c \in DriverOf(s) : DriverRuns(c)}) <= 1
        /\ Cardinality({c \in DriverOf(s) : HasBegun(c)}) <= 1

(***************************************************************************)
(* C15, C16: requires_human_input and checkpoint_id                        *)
(***************************************************************************)

\* The scheduler of session s is halted immediately before an interrupt
\* node and the driver awaits feedback.
HaltedAwaitingFeedback(s) ==
    /\ graph_state[s].next \in InterruptBefore
    /\ \E c \in DriverOf(s) :
          \/ pc[c] = "stream" /\ ~first[c]
          \/ pc[c] \in {"settle", "poll"}

\* C15: in every reachable state the requires_human_input flag of the
\* session's state record (the values of its checkpoint) is true if and
\* only if the scheduler is halted immediately before an interrupt node
\* awaiting feedback.
C15_FlagIffHaltedAwaitingFeedback ==
    \A s \in SessionIds :
        s \in Created =>
           (graph_state[s].values.requires_human_input
               <=> HaltedAwaitingFeedback(s))

\* A node of session s has returned in the step.
NodeReturned(s) ==
    /\ Len(trace'[s]) > Len(trace[s])
    /\ trace'[s][Len(trace'[s])].ok

\* The driver of session s has consumed feedback and resumes in the step.
FeedbackConsumed(s) == Len(applied'[s]) > Len(applied[s])

\* C16: whenever a node returns with requires_human_input set, checkpoint_id
\* names the checkpoint the session is suspended at next (the one that gates
\* the pending node), and the resume step that consumes the feedback leaves
\* both requires_human_input and checkpoint_id cleared in the checkpoint.
C16_CheckpointIdMatchesNextWait ==
    [][\A s \in SessionIds :
          /\ (NodeReturned(s) /\ graph_state'[s].values.requires_human_input)
             => graph_state'[s].values.checkpoint_id
                   = GateOf(graph_state'[s].next)
          /\ FeedbackConsumed(s)
             => /\ ~graph_state'[s].values.requires_human_input
                /\ graph_state'[s].values.checkpoint_id = None
      ]_vars

\* The values the status of a session may take.
StatusValues ==
    {"initialized", "running", "processing", "completed", "failed"}
       \cup {WaitingStatus(t) : t \in KnownCheckpoints}

\* The driver of connection c has stopped on a graph execution error.
ReportedGraphError(c) == Sent(c, "error", "graph_execution_failed")

\* C17: the status of every session is one of initialized, running, waiting
\* at one named checkpoint, processing, completed, failed; and a session
\* whose driver has stopped on a timeout or on a graph execution error has
\* the status failed.
C17_StatusValuesAndFailedOnStop ==
    /\ \A s \in Created : execution_states[s].status \in StatusValues
    /\ \A c \in ConnIds :
          (ReportedTimeout(c) \/ ReportedGraphError(c))
             => execution_states[session_id[c]].status = "failed"

\* The driver of connection c has resumed after the plan_approval checkpoint
\* and the refine node is about to run as the first node of the resume.
RefineResumed(c) ==
    /\ pc[c] = "stream"
    /\ phase[c] = "refine"
    /\ first[c]
    /\ loop[c].next = "refine"

\* C18: what the refine node does when it is resumed after the
\* plan_approval checkpoint does not depend on the decision held in the
\* plan_review slot: with any other decision in that slot it returns or
\* raises alike and leaves every other field of the state the same.
C18_RefineIgnoresPlanReviewSlot ==
    \A c \in ConnIds :
        RefineResumed(c) =>
           \A d \in Decisions \cup {None}, out \in OutputsOf("refine") :
               LET st    == loop[c].values
                   other == [st EXCEPT !.human_feedback_plan = d]
                   r1    == refinement_node(st, out)
                   r2    == refinement_node(other, out)
               IN  /\ r1.ok = r2.ok
                   /\ [r1.state EXCEPT !.human_feedback_plan = d] = r2.state

\* The plan shown to the human at the plan_approval checkpoint of session s
\* is the draft of the synthesize node, and the human has approved it.
DraftShownAndApproved(s) ==
    /\ \E c \in DriverOf(s) : Sent(c, "hitl_required", "plan_approval")
    /\ \E j \in 1..Len(applied[s]) :
          /\ applied[s][j].checkpoint = "plan_approval"
          /\ applied[s][j].decision = "approve"

\* C19: whenever the brief node has executed, the refined plan it consumed
\* is the plan that was shown to the human in a hitl_required notification
\* and approved; a plan regenerated by the refine node has not reached the
\* brief node.
C19_BriefConsumesReviewedPlan ==
    \A s \in SessionIds :
        Invocations(s, "brief") > 0 =>
           /\ DraftShownAndApproved(s)
           /\ graph_state[s].values.refined_plan = "draft"

\* The feedback given at the research_plan checkpoint of session s is
\* consumed in the step.
PlanFeedbackConsumed(s) ==
    /\ FeedbackConsumed(s)
    /\ applied'[s][Len(applied'[s])].checkpoint = "research_plan"

\* C20: the plan-revision loop is a back-edge of the graph: once the
\* feedback on the research plan is in the state, the edge out of the plan
\* node is the conditional one, routing a plan that is not approved back to
\* the plan node and an approved plan to search; and the plan node becomes
\* the pending node of a checkpoint only by the scheduler following an edge
\* after a node has returned.
C20_ReviseLoopIsGraphBackEdge ==
    [][\A s \in SessionIds :
          LET st == graph_state'[s].values IN
          /\ PlanFeedbackConsumed(s) =>
                /\ should_continue_after_plan(st)
                      = IF st.plan_approved THEN "search" ELSE "plan"
                /\ Successor("plan", st) = should_continue_after_plan(st)
          /\ (graph_state'[s].next = "plan" /\ graph_state'[s] # graph_state[s])
                => NodeReturned(s)
      ]_vars

(***************************************************************************)
(* The lists specification: the search, extract and prioritize nodes and   *)
(* the preview of the plan_review checkpoint, applied in the order of the  *)
(* graph to the lists of a new session, for every output of the search and *)
(* text-generation collaborators within the bounds.                        *)
(***************************************************************************)

\* What the search collaborator returns: the number of results per query.
SearchOutputs == UNION {[1..n -> 0..MaxResults] : n \in 0..MaxQueries}

\* What the text-generation collaborator returns to extract: no JSON, or
\* claims whose citation_id is missing, unknown (0) or a citation's id and
\* whose confidence is missing or given.
ClaimData ==
    [has_citation_id : {TRUE}, citation_id : 0..2,
     has_confidence : BOOLEAN, confidence : {9}]
       \cup [has_citation_id : {FALSE}, citation_id : {0},
             has_confidence : BOOLEAN, confidence : {9}]

\* A long answer of the collaborator: more claims than prioritize keeps,
\* every second one with a confidence, none with a citation_id.
LongClaims ==
    [i \in 1..MaxLongClaims |->
        [has_citation_id |-> FALSE, citation_id |-> 0,
         has_confidence |-> (i % 2 = 0), confidence |-> 9]]

ExtractOutputs ==
    {[json |-> FALSE, claims |-> << >>]}
       \cup {[json |-> TRUE, claims |-> claims_data] :
                claims_data \in UNION {[1..n -> ClaimData] : n \in 0..MaxClaims}}
       \cup {[json |-> TRUE, claims |-> LongClaims]}

\* What the endpoints and the drivers work on.
session_vars ==
    <<execution_states, active_connections, graph_state, pc, session_id,
      phase, first, waiting_for, timeout, events, loop, execution_logger,
      trace, runs, applied, feedback_calls, response, received>>

lists_search ==
    /\ pipeline.stage = "input"
    /\ \E queries \in SearchOutputs :
          pipeline' = search_node_citations(pipeline, queries)
    /\ UNCHANGED session_vars

lists_extract ==
    /\ pipeline.stage = "search"
    /\ \E claims_response \in ExtractOutputs :
          pipeline' = extract_node_claims(pipeline, claims_response)
    /\ UNCHANGED session_vars

lists_prioritize ==
    /\ pipeline.stage = "extract"
    /\ pipeline' = author_prioritization_facts(pipeline)
    /\ UNCHANGED session_vars

lists_preview ==
    /\ pipeline.stage = "prioritize"
    /\ pipeline' = [pipeline EXCEPT !.preview = serialized_facts(pipeline),
                                    !.stage = "plan_review"]
    /\ UNCHANGED session_vars

NextLists ==
    \/ lists_search
    \/ lists_extract
    \/ lists_prioritize
    \/ lists_preview

SpecLists == Init /\ [][NextLists]_vars

(***************************************************************************)
(* C21..C30                                                                *)
(***************************************************************************)

\* Session s is or has been suspended at the fact-verification checkpoint.
SuspendedAtFactVerification(s) ==
    \/ execution_states[s].status = WaitingStatus("fact_verification")
    \/ \E c \in DriverOf(s) : Sent(c, "hitl_required", "fact_verification")

RefineIsNext(c) ==
    /\ pc[c] = "stream"
    /\ loop[c].next = "refine"
    /\ ~Halts(loop[c].next, first[c])

\* C22: the refine node is total: whatever decision the feedback carries
\* and whatever the collaborator returns, it returns a state record with
\* refined_plan set and does not raise.
C22_RefineIsTotal ==
    \A c \in ConnIds :
        RefineIsNext(c) =>
           \A out \in OutputsOf("refine") :
               LET r == refinement_node(loop[c].values, out) IN
               /\ r.ok
               /\ r.state.refined_plan # None

\* The time the polling loop of connection c has slept, in tenths of a
\* second: one sleep for each poll counted.
SleptTenths(c) == timeout[c] * SleepTenths

\* C23: a wait that ends by timeout has lasted 600 seconds: the driver
\* reports the timeout when its polling loop has slept 600 seconds, not
\* earlier and not later.
C23_TimeoutAfter600Seconds ==
    [][\A c \in ConnIds :
          (ReportedTimeout(c)' /\ ~ReportedTimeout(c))
             => SleptTenths(c)' = 600 * 10
      ]_vars

\* A driver of session s has reported a timeout.
HasTimedOut(s) ==
    \E c \in AllConnIds : session_id[c] = s /\ ReportedTimeout(c)

\* C24: a timeout is terminal: once a session has timed out at a
\* checkpoint, no node of the session is executed, no feedback is consumed
\* and no stream is opened for it any more, whatever is submitted or
\* opened afterwards.
C24_TimeoutIsTerminal ==
    [][\A s \in SessionIds :
          HasTimedOut(s) =>
             /\ trace'[s] = trace[s]
             /\ applied'[s] = applied[s]
             /\ runs'[s] = runs[s]
      ]_vars

\* C25: citation ids are unique and assigned in increasing order: of any
\* two citations of the state record the later one has the greater id.
C25_CitationIdsUniqueIncreasing ==
    \A i, j \in 1..Len(pipeline.citations) :
        i < j => pipeline.citations[i].id < pipeline.citations[j].id

\* The search node has created citations for the results of two queries.
C25_Witness ==
    /\ pipeline.stage = "search"
    /\ Len(pipeline.citations) > MaxResults

\* The ids of the citations in the state record.
CitationIds == {pipeline.citations[i].id : i \in 1..Len(pipeline.citations)}

\* C26: once the extract node has run, the citation_id of every extracted
\* claim is the id of a citation in the state record, whatever the
\* collaborators returned.
C26_ClaimsCiteExistingCitations ==
    pipeline.stage = "extract" =>
       \A i \in 1..Len(pipeline.extracted_claims) :
           pipeline.extracted_claims[i].citation_id \in CitationIds

\* C27: the preview of the hitl_required notification that carries facts
\* holds at most 6 claims, and they are the first claims of the ranked list
\* facts_for_verification, in rank order.
C27_PreviewIsFirstSixFacts ==
    pipeline.stage = "plan_review" =>
       LET facts == pipeline.facts_for_verification
           preview == pipeline.preview
       IN /\ Len(preview) <= 6
          /\ Len(preview) = (IF Len(facts) < 6 THEN Len(facts) ELSE 6)
          /\ \A i \in 1..Len(preview) :
                /\ preview[i].claim = facts[i].claim
                /\ preview[i].confidence = facts[i].confidence

\* A preview of 6 facts has been sent for more than 6 extracted claims.
C27_Witness ==
    /\ pipeline.stage = "plan_review"
    /\ Len(pipeline.extracted_claims) > 6
    /\ Len(pipeline.preview) = 6

\* The states the decision function on refine tells apart.
DecisionInputs ==
    {[InitialState EXCEPT !.requires_human_input = r, !.checkpoint_id = k] :
        r \in BOOLEAN, k \in KnownCheckpoints \cup {None}}

\* C28: the graph is well-formed: the entry node is declared, every
\* unconditional edge goes from a declared node to a declared node or to
\* the terminal marker, every value the decision function on refine can
\* return is mapped to a declared node, and the node the scheduler makes
\* pending after any node is declared or the terminal marker.
C28_GraphIsWellFormed ==
    /\ EntryPoint \in Nodes
    /\ InterruptBefore \subseteq Nodes
    /\ \A e \in Edges : e[1] \in Nodes /\ e[2] \in Nodes \cup {END}
    /\ \A st \in DecisionInputs :
          /\ should_wait_for_fact_verification(st) \in DOMAIN RefinePathMap
          /\ RefinePathMap[should_wait_for_fact_verification(st)] \in Nodes
    /\ \A s \in SessionIds, n \in Nodes :
          /\ Successor(n, graph_state[s].values) \in Nodes \cup {END}
          /\ n # "refine" =>
                <<n, Successor(n, graph_state[s].values)>> \in Edges
    /\ \A s \in SessionIds : graph_state[s].next \in Nodes \cup {END}

\* The scheduler has followed the conditional edge out of refine.
C28_Witness ==
    \E s \in SessionIds :
        /\ Len(trace[s]) > 0
        /\ trace[s][Len(trace[s])].node = "refine"
        /\ trace[s][Len(trace[s])].ok
        /\ graph_state[s].next = "brief"

\* The nodes session s has visited, in order.
Visited(s) == [i \in 1..Len(trace[s]) |-> trace[s][i].node]

\* The number of decisions other than approve the driver of s has consumed
\* at the research_plan checkpoint.
PlanRevisions(s) ==
    Cardinality({j \in 1..Len(applied[s]) :
                    /\ applied[s][j].checkpoint = "research_plan"
                    /\ applied[s][j].decision \in Decisions \ {"approve"}})

\* The path of a session whose plan was revised k times.
ExpectedPath(k) ==
    <<"input">> \o [i \in 1..(k + 1) |-> "plan"]
       \o <<"search", "extract", "prioritize", "synthesize", "refine",
            "brief", "format">>

IsPrefix(p, q) == Len(p) <= Len(q) /\ p = SubSeq(q, 1, Len(p))

\* C29: the nodes a session visits are determined by the feedback
\* decisions: at any time they are a prefix of input, plan (once plus once
\* for each plan decision other than approve), search, extract,
\* prioritize, synthesize, refine, brief, format, and they are that whole
\* path when the session has completed.
C29_VisitedNodesAreThePath ==
    \A s \in SessionIds :
        s \in Created =>
           /\ IsPrefix(Visited(s), ExpectedPath(PlanRevisions(s)))
           /\ execution_states[s].status = "completed"
                 => Visited(s) = ExpectedPath(PlanRevisions(s))

\* The state record submit_feedback works on.
Record(s) == execution_states[s].state

\* C30: a submit_feedback call with checkpoint type X stores the decision
\* in the slot of X, clears requires_human_input, sets the status to
\* processing and leaves every other field of the state record as it was;
\* and a feedback slot of the record changes in no step other than a
\* submit_feedback call for its checkpoint, the checkpoint of the graph
\* only ever receiving the value the record holds.
C30_FeedbackFrame ==
    [][\A s \in SessionIds :
          /\ \A t \in KnownCheckpoints, d \in Decisions :
                submit_feedback(s, t, d) =>
                   /\ Record(s)'[SlotOf(t)] = d
                   /\ ~Record(s)'.requires_human_input
                   /\ execution_states'[s].status = "processing"
                   /\ \A f \in DOMAIN Record(s) \ {SlotOf(t),
                                                   "requires_human_input"} :
                         Record(s)'[f] = Record(s)[f]
          /\ \A t \in KnownCheckpoints :
                /\ (/\ s \in Created
                    /\ Record(s)'[SlotOf(t)] # Record(s)[SlotOf(t)])
                   => \E d \in Decisions : submit_feedback(s, t, d)
                /\ (/\ s \in Created
                    /\ graph_state'[s].values[SlotOf(t)]
                          # graph_state[s].values[SlotOf(t)])
                   => graph_state'[s].values[SlotOf(t)] = Record(s)[SlotOf(t)]
      ]_vars

\* Feedback for the plan_review checkpoint has been stored while the slot
\* of the research_plan checkpoint kept the decision stored before.
C30_Witness ==
    \E s \in SessionIds :
        /\ s \in Created
        /\ execution_states[s].status = "processing"
        /\ Record(s).human_feedback_research_plan = "approve"
        /\ Record(s).human_feedback_plan = "rework"
        /\ received[s] # << >>
        /\ received[s][Len(received[s])].checkpoint_type = "plan_review"

(***************************************************************************)
(* C31..C39                                                                *)
(***************************************************************************)

\* The driver c has emitted hitl_required for checkpoint t and has not yet
\* left the wait that follows it.
Notified(c, t) ==
    /\ pc[c] \in {"settle", "poll"}
    /\ waiting_for[c] = t

\* The wait of driver c will end at its next test of the status.
Unblocked(c) ==
    /\ pc[c] = "poll"
    /\ execution_states[session_id[c]].status = "processing"

\* C31: no lost wake-up: a feedback call for checkpoint X made at any
\* moment after hitl_required for X was emitted unblocks the session: the
\* driver is in its polling loop and finds the status processing, it does
\* not set the status to waiting after the call.
C31_NoLostWakeUp ==
    [][\A s \in SessionIds, t \in KnownCheckpoints, d \in Decisions :
          \A c \in DriverOf(s) :
             (Notified(c, t) /\ submit_feedback(s, t, d)) => Unblocked(c)'
      ]_vars

\* The polling loop of driver c ends in the step, and it ends because the
\* status is no longer the waiting status of the checkpoint.
WaitEndsByFeedback(c) ==
    /\ pc[c] = "poll"
    /\ pc'[c] # "poll"
    /\ execution_states[session_id[c]].status # WaitingStatus(waiting_for[c])

\* C32: feedback delivered before the wait has timed out is applied: when
\* the polling loop ends because the status has changed, the driver
\* resumes the graph and reports no timeout, also when the change is seen
\* on the last poll.
C32_FeedbackBeforeTimeoutIsApplied ==
    [][\A c \in ConnIds :
          WaitEndsByFeedback(c) =>
             /\ ~ReportedTimeout(c)'
             /\ pc'[c] \in {"stream", "revising"}
             /\ FeedbackConsumed(session_id[c])
      ]_vars

\* The last call session s received while it waited at the research_plan
\* checkpoint was an approve for that checkpoint.
PlanApprovedWhileWaiting(s) ==
    \E i \in 1..Len(received[s]) :
        /\ received[s][i].at = "research_plan"
        /\ received[s][i].checkpoint_type = "research_plan"
        /\ received[s][i].decision = "approve"
        /\ \A j \in (i + 1)..Len(received[s]) :
              received[s][j].at # "research_plan"

\* C33: the search node executes only if an approve for the research_plan
\* checkpoint was submitted while the session waited at that checkpoint
\* for the plan under review: a decision submitted earlier and left in the
\* slot, or feedback for another checkpoint, does not let search run.
C33_SearchNeedsApprovalWhileWaiting ==
    \A s \in SessionIds :
        Invocations(s, "search") > 0 => PlanApprovedWhileWaiting(s)

\* The number of revise decisions for the research_plan checkpoint that
\* session s has been given while it waited.
ReviseDecisions(s) ==
    Cardinality({i \in 1..Len(received[s]) :
                    /\ received[s][i].checkpoint_type = "research_plan"
                    /\ received[s][i].decision = "revise"})

\* C34: the revision_count of the research plan is the number of times the
\* plan node has executed in the session minus one, and whenever the
\* session is suspended it is the number of revise decisions submitted so
\* far for the research_plan checkpoint.
C34_RevisionCountCountsRevises ==
    \A s \in SessionIds :
        (s \in Created /\ graph_state[s].values.research_plan.present) =>
           LET revision_count ==
                  graph_state[s].values.research_plan.revision_count
           IN /\ revision_count = Invocations(s, "plan") - 1
              /\ SuspendedAt(s) # None => revision_count = ReviseDecisions(s)

\* The plan node has returned in the step.
PlanReturned(s) ==
    /\ NodeReturned(s)
    /\ trace'[s][Len(trace'[s])].node = "plan"

\* The search node is the node the stream of connection c executes next.
SearchIsNext(c) ==
    /\ pc[c] = "stream"
    /\ loop[c].next = "search"
    /\ ~Halts(loop[c].next, first[c])

\* The last decision the driver of s consumed at the research_plan
\* checkpoint is an approve.
LastPlanDecisionIsApprove(s) ==
    /\ applied[s] # << >>
    /\ applied[s][Len(applied[s])].checkpoint = "research_plan"
    /\ applied[s][Len(applied[s])].decision = "approve"

\* C35: whenever the search node executes, plan_approved is true in the
\* checkpoint; every execution of the plan node leaves plan_approved
\* false; and plan_approved is true only when the last decision consumed
\* at the research_plan checkpoint is an approve, so a regenerated plan is
\* not marked approved before a new approve is applied.
C35_SearchRunsOnApprovedPlan ==
    [][\A s \in SessionIds :
          /\ \A c \in DriverOf(s) :
                SearchIsNext(c) => loop[c].values.plan_approved
          /\ PlanReturned(s) => ~graph_state'[s].values.plan_approved
          /\ (s \in Created /\ graph_state[s].values.plan_approved
                 /\ graph_state[s].next = "search")
                => LastPlanDecisionIsApprove(s)
      ]_vars

\* The search node is about to execute on an approved plan that was
\* regenerated once.
C35_Witness ==
    \E c \in ConnIds :
        /\ SearchIsNext(c)
        /\ loop[c].values.plan_approved
        /\ loop[c].values.research_plan.revision_count = 1

\* C36: the status completed is terminal: once the status of a session is
\* completed no later operation changes it, a late or repeated
\* submit_feedback call included.
C36_CompletedIsTerminal ==
    [][\A s \in SessionIds : IsCompleted(s) => IsCompleted(s)']_vars

\* Connection c sends the complete message in the step.
SendsComplete(c) ==
    /\ Len(events'[c]) > Len(events[c])
    /\ events'[c][Len(events'[c])].type = "complete"

\* The status of session s becomes completed in the step.
BecomesCompleted(s) == ~IsCompleted(s) /\ IsCompleted(s)'

\* The graph of session s has reached its terminal node: the format node
\* was the last node to execute, it returned, and no node is pending.
GraphFinished(s) ==
    /\ graph_state[s].next = END
    /\ trace[s] # << >>
    /\ trace[s][Len(trace[s])].node = "format"
    /\ trace[s][Len(trace[s])].ok

\* C37: the status of a session becomes completed, and a complete message
\* is sent, only after the graph has reached its terminal node (the format
\* node has executed and no node is pending), never while an interrupt node
\* is still pending.
C37_CompletedOnlyAtGraphEnd ==
    [][\A s \in SessionIds :
          /\ (\E c \in DriverOf(s) : SendsComplete(c)) => GraphFinished(s)
          /\ BecomesCompleted(s) =>
                /\ GraphFinished(s)
                /\ \E c \in DriverOf(s) : Sent(c, "complete", None)
      ]_vars

\* The complete message has been sent and the status is completed with the
\* graph at its end.
C37_Witness ==
    \E s \in SessionIds :
        /\ IsCompleted(s)
        /\ GraphFinished(s)
        /\ \E c \in DriverOf(s) : Sent(c, "complete", None)

\* The positions of the complete messages among the messages of the driver
\* run of connection c.
CompleteMessages(c) == MessagesOfType(c, "complete")

\* The positions of its error messages.
ErrorMessages(c) == MessagesOfType(c, "error")

\* C38: on the channel of a session one driver run sends at most one
\* complete message and never both an error message and a complete
\* message: a timeout or a graph execution failure ends the run without a
\* completion message, and nothing is sent after either.
C38_OneCompleteAndNoErrorWithIt ==
    \A c \in ConnIds :
        /\ Cardinality(CompleteMessages(c)) <= 1
        /\ ~(CompleteMessages(c) # {} /\ ErrorMessages(c) # {})
        /\ (ReportedTimeout(c) \/ ReportedGraphError(c)) =>
              /\ CompleteMessages(c) = {}
              /\ pc[c] = "closed"
              /\ LastEvent(c).type = "error"

\* A run that asked for feedback has ended on a timeout, without a
\* complete message.
C38_Witness ==
    \E c \in ConnIds :
        /\ ReportedTimeout(c)
        /\ pc[c] = "closed"
        /\ CompleteMessages(c) = {}
        /\ Len(events[c]) > 1

\* The claims are in non-increasing order of score.
NonIncreasingScore(claims) ==
    \A i, j \in 1..Len(claims) : i < j => Score(claims[i]) >= Score(claims[j])

\* The number of positions at which claim appears in claims.
Occurrences(claim, claims) ==
    Cardinality({i \in 1..Len(claims) : claims[i] = claim})

\* The claims of top are the claims of highest score of all_claims: each is
\* taken from all_claims, no more often than it is there, and no claim
\* left out has a higher score than one taken.
TopOf(top, all_claims) ==
    /\ \A i \in 1..Len(top) :
          Occurrences(top[i], top) <= Occurrences(top[i], all_claims)
    /\ \A j \in 1..Len(all_claims) :
          Occurrences(all_claims[j], top) < Occurrences(all_claims[j], all_claims)
             => \A i \in 1..Len(top) :
                   Score(top[i]) >= Score(all_claims[j])

\* The minimum of two numbers.
Min(a, b) == IF a <= b THEN a ELSE b

\* C39: after the prioritize node runs, prioritized_claims holds at most 12
\* claims and facts_for_verification at most 6 (as many as there are
\* extracted claims when they are fewer); both are taken from
\* extracted_claims in non-increasing order of score, and
\* facts_for_verification is a prefix of prioritized_claims.
C39_PrioritizedAndFactsAreTopClaims ==
    pipeline.stage \in {"prioritize", "plan_review"} =>
       LET extracted == pipeline.extracted_claims
           prioritized == pipeline.prioritized_claims
           facts == pipeline.facts_for_verification
       IN /\ Len(prioritized) = Min(Len(extracted), 12)
          /\ Len(facts) = Min(Len(extracted), 6)
          /\ NonIncreasingScore(prioritized)
          /\ NonIncreasingScore(facts)
          /\ TopOf(prioritized, extracted)
          /\ TopOf(facts, extracted)
          /\ IsPrefix(facts, prioritized)

\* The prioritize node has run on more than 12 extracted claims that were
\* not in order of score.
C39_Witness ==
    /\ pipeline.stage = "prioritize"
    /\ Len(pipeline.extracted_claims) > 12
    /\ ~NonIncreasingScore(pipeline.extracted_claims)
    /\ Len(pipeline.prioritized_claims) = 12
    /\ Len(pipeline.facts_for_verification) = 6

====
